---- MODULE Spec2Model ----
(***************************************************************************)
(* A model of .github/scripts/update_blog_readme.py: the blog index        *)
(* generator (parse_post -> collect_posts -> render_blog_section ->        *)
(* replace_blog_section, driven by main).                                  *)
(*                                                                         *)
(* Text is a sequence of one-element strings.  An element is a single      *)
(* character ("#", " ", "\n", a digit, a letter of a path, ...) or, in the  *)
(* fixed lines the renderer emits, one whitespace-free word of that line   *)
(* ("Shantanu's", "PEN" for the pen emoji, BASE_URL, ...).  Whitespace is   *)
(* always modelled character by character.                                 *)
(***************************************************************************)
EXTENDS Integers, Sequences, FiniteSets, TLC

VARIABLES
    wikiKind,    \* what is at WIKI_DIR: "missing", "file" or "dir"
    files,       \* the tree under WIKI_DIR: relpath -> [kind, text]
    todo,        \* paths WIKI_DIR.rglob("*.md") has still to yield
    posts,       \* collect_posts: the list being built, then sorted
    new_blog,    \* main: render_blog_section's result
    readme,      \* BLOG_REPO_README on disk: [exists, text]
    existing,    \* main: the local `existing`
    updated,     \* main: the local `updated`
    pc,          \* main's position
    exitStatus,  \* the process's exit status once pc = "exit"
    runs,        \* completed invocations of the tool
    arg,         \* the argument of a function called on its own
    ret          \* and its result

vars == <<wikiKind, files, todo, posts, new_blog, readme, existing, updated,
          pc, exitStatus, runs, arg, ret>>

----------------------------------------------------------------------------
(* Bounds of the model *)

MaxRuns == 2
MaxFiles == 4
MaxDocLines == 4
MaxPosts == 3
MaxFileLines == 3
MaxDepth == 2

----------------------------------------------------------------------------
(* str methods the script uses *)

\* str.strip / str.isspace: the whitespace characters of the model's alphabet
IsSpace(c) == c \in {" ", "\n", "\t"}

\* The value of an absent Optional[Post]
None == [none |-> TRUE]

Last(s) == s[Len(s)]
Front(s) == SubSeq(s, 1, Len(s) - 1)

RECURSIVE RStrip(_)
RStrip(s) ==
    IF s = <<>> THEN <<>>
    ELSE IF IsSpace(Last(s)) THEN RStrip(Front(s))
    ELSE s

RECURSIVE LStrip(_)
LStrip(s) ==
    IF s = <<>> THEN <<>>
    ELSE IF IsSpace(Head(s)) THEN LStrip(Tail(s))
    ELSE s

Strip(s) == LStrip(RStrip(s))

StartsWith(s, p) == Len(s) >= Len(p) /\ SubSeq(s, 1, Len(p)) = p

EndsWith(s, p) == Len(s) >= Len(p) /\ SubSeq(s, Len(s) - Len(p) + 1, Len(s)) = p

\* str.splitlines(): no empty final line after a trailing line break
RECURSIVE SplitLinesFrom(_, _, _, _)
SplitLinesFrom(s, i, cur, acc) ==
    IF i > Len(s) THEN (IF cur = <<>> THEN acc ELSE Append(acc, cur))
    ELSE IF s[i] = "\n" THEN SplitLinesFrom(s, i + 1, <<>>, Append(acc, cur))
    ELSE SplitLinesFrom(s, i + 1, Append(cur, s[i]), acc)

SplitLines(s) == SplitLinesFrom(s, 1, <<>>, <<>>)

\* "\n".join(lines)
RECURSIVE Join(_)
Join(lines) ==
    IF lines = <<>> THEN <<>>
    ELSE IF Len(lines) = 1 THEN lines[1]
    ELSE lines[1] \o <<"\n">> \o Join(Tail(lines))

----------------------------------------------------------------------------
(* replace_blog_section *)

\* The sentinel heading, "# Blog"
SENTINEL == <<"#", " ", "B", "l", "o", "g">>

\* The prefix of a top-level heading, "# "
H1 == <<"#", " ">>

\* the test of line 140
IsSentinelLine(line) == Strip(line) = SENTINEL

\* the loop of lines 138-142: the first index whose line is the sentinel, 0 for None
FindStart(lines) ==
    IF \E i \in 1..Len(lines) : IsSentinelLine(lines[i])
    THEN CHOOSE i \in 1..Len(lines) :
            /\ IsSentinelLine(lines[i])
            /\ \A j \in 1..(i - 1) : ~IsSentinelLine(lines[j])
    ELSE 0

\* the loop of lines 150-154 with a test that never succeeds: end stays len(lines)
FindEnd_NoNextH1(lines, start) == Len(lines) + 1

\* the loop of lines 150-154: the first H1 after start, Len(lines) + 1 when none
FindEnd(lines, start) ==
    IF \E i \in (start + 1)..Len(lines) : StartsWith(lines[i], H1)
    THEN CHOOSE i \in (start + 1)..Len(lines) :
            /\ StartsWith(lines[i], H1)
            /\ \A j \in (start + 1)..(i - 1) : ~StartsWith(lines[j], H1)
    ELSE Len(lines) + 1

\* the append branch, lines 144-147, written without the rstrip()
AppendSection_NoRStrip(readme_text, new_section) ==
    readme_text \o <<"\n", "\n">> \o Strip(new_section) \o <<"\n">>

\* the append branch, lines 144-147
AppendSection(readme_text, new_section) ==
    RStrip(readme_text) \o <<"\n", "\n">> \o Strip(new_section) \o <<"\n">>

replace_blog_section(readme_text, new_section) ==
    LET lines == SplitLines(readme_text)
        start == FindStart(lines)
    IN  IF start = 0
        THEN AppendSection(readme_text, new_section)
        ELSE LET end    == FindEnd(lines, start)
                 before == RStrip(Join(SubSeq(lines, 1, start - 1)))
                 after  == LStrip(Join(SubSeq(lines, end, Len(lines))))
                 c1     == IF before # <<>> THEN before \o <<"\n", "\n">> ELSE <<>>
                 c2     == c1 \o Strip(new_section) \o <<"\n">>
             IN  IF after # <<>>
                 THEN c2 \o <<"\n">> \o RStrip(after) \o <<"\n">>
                 ELSE c2

----------------------------------------------------------------------------
(* parse_post *)

\* Optional[Post]: a Post value
Post(title, d, relpath) == [title |-> title, d |-> d, relpath |-> relpath]

IsPost(r) == DOMAIN r = {"title", "d", "relpath"}

\* An exception leaving parse_post (read_text raising anything but UnicodeDecodeError)
Raised == [raised |-> "OSError"]

Digits == {"0", "1", "2", "3", "4", "5", "6", "7", "8", "9"}

\* int() of one decimal digit
DigitVal(c) ==
    CASE c = "0" -> 0 [] c = "1" -> 1 [] c = "2" -> 2 [] c = "3" -> 3
      [] c = "4" -> 4 [] c = "5" -> 5 [] c = "6" -> 6 [] c = "7" -> 7
      [] c = "8" -> 8 [] c = "9" -> 9

\* int() of a run of decimal digits
RECURSIVE ToInt(_)
ToInt(s) == IF s = <<>> THEN 0 ELSE 10 * ToInt(Front(s)) + DigitVal(Last(s))

\* TITLE_RE = ^\s*#\s+(.+?)\s*$ matched against one line: leading whitespace,
\* a "#", at least one whitespace character and at least one more character
TITLE_RE_match(line) ==
    LET t == LStrip(line)
    IN  /\ Len(t) >= 3
        /\ t[1] = "#"
        /\ IsSpace(t[2])

\* m_title.group(1).strip(): what follows the "#", trimmed (empty when only
\* whitespace follows it)
TITLE_RE_title(line) == Strip(Tail(LStrip(line)))

\* DATE_RE = ^\s*\*\*(\d{4}-\d{2}-\d{2})\*\*\s*$ matched against one line
DATE_RE_match(line) ==
    LET t == Strip(line)
    IN  /\ Len(t) = 14
        /\ t[1] = "*" /\ t[2] = "*" /\ t[13] = "*" /\ t[14] = "*"
        /\ \A i \in {3, 4, 5, 6, 8, 9, 11, 12} : t[i] \in Digits
        /\ t[7] = "-" /\ t[10] = "-"

\* m_date.group(1)
DATE_RE_group(line) == SubSeq(Strip(line), 3, 12)

IsLeap(y) == y % 4 = 0 /\ (y % 100 # 0 \/ y % 400 = 0)

DaysInMonth(y, m) ==
    IF m = 2 THEN (IF IsLeap(y) THEN 29 ELSE 28)
    ELSE IF m \in {4, 6, 9, 11} THEN 30
    ELSE 31

\* date.fromisoformat that takes any day up to 31 in every month
date_fromisoformat_AnyDay(s) ==
    LET y == ToInt(SubSeq(s, 1, 4))
        m == ToInt(SubSeq(s, 6, 7))
        d == ToInt(SubSeq(s, 9, 10))
    IN  IF y >= 1 /\ m \in 1..12 /\ d >= 1 /\ d <= 31
        THEN [year |-> y, month |-> m, day |-> d]
        ELSE None

\* date.fromisoformat on text of the shape dddd-dd-dd: None stands for ValueError
date_fromisoformat(s) ==
    LET y == ToInt(SubSeq(s, 1, 4))
        m == ToInt(SubSeq(s, 6, 7))
        d == ToInt(SubSeq(s, 9, 10))
    IN  IF y >= 1 /\ m \in 1..12 /\ d >= 1 /\ d <= DaysInMonth(y, m)
        THEN [year |-> y, month |-> m, day |-> d]
        ELSE None

\* the two while loops of parse_post: the first index >= i of a line that is not blank
RECURSIVE SkipBlank(_, _)
SkipBlank(lines, i) ==
    IF i <= Len(lines) /\ Strip(lines[i]) = <<>> THEN SkipBlank(lines, i + 1) ELSE i

\* parse_post of the file `file` ([kind, text]) found at WIKI_DIR / relpath
parse_post(file, relpath) ==
    IF file.kind = "unreadable" THEN Raised
    ELSE IF file.kind = "nonutf8" THEN None
    ELSE
    LET lines == SplitLines(file.text)
        i     == SkipBlank(lines, 1)
    IN  IF i > Len(lines) THEN None
        ELSE IF ~TITLE_RE_match(lines[i]) THEN None
        ELSE LET title == TITLE_RE_title(lines[i])
                 j     == SkipBlank(lines, i + 1)
             IN  IF j > Len(lines) THEN None
                 ELSE IF ~DATE_RE_match(lines[j]) THEN None
                 ELSE LET d == date_fromisoformat(DATE_RE_group(lines[j]))
                      IN  IF d = None THEN None
                          ELSE Post(title, d, relpath)

----------------------------------------------------------------------------
(* to_blog_link *)

\* BASE_URL, one element of text
BASE_URL == <<"https://8hantanu.net/wiki">>

\* str.lower() of one character
LowerChar(c) ==
    CASE c = "A" -> "a" [] c = "D" -> "d" [] c = "E" -> "e"
      [] c = "M" -> "m" [] c = "R" -> "r" [] c = "T" -> "t"
      [] OTHER -> c

\* a comparison that forgets .lower()
Lower_Identity(s) == s

\* str.lower()
Lower(s) == [i \in 1..Len(s) |-> LowerChar(s[i])]

\* Path(relpath).parts: the segments between "/", without empty and "." segments
RECURSIVE PartsFrom(_, _, _, _)
PartsFrom(s, i, cur, acc) ==
    LET keep == IF cur = <<>> \/ cur = <<".">> THEN acc ELSE Append(acc, cur)
    IN  IF i > Len(s) THEN keep
        ELSE IF s[i] = "/" THEN PartsFrom(s, i + 1, <<>>, keep)
        ELSE PartsFrom(s, i + 1, Append(cur, s[i]), acc)

Parts(relpath) == PartsFrom(relpath, 1, <<>>, <<>>)

\* PurePath.as_posix() of a relative path given by its parts
RECURSIVE AsPosix(_)
AsPosix(parts) ==
    IF parts = <<>> THEN <<".">>
    ELSE IF Len(parts) = 1 THEN parts[1]
    ELSE parts[1] \o <<"/">> \o AsPosix(Tail(parts))

\* PurePath.name
PathName(parts) == IF parts = <<>> THEN <<>> ELSE Last(parts)

\* PurePath.parent
PathParent(parts) == IF parts = <<>> THEN <<>> ELSE Front(parts)

\* str.rfind("."), counted from 1; 0 when there is none
RFindDot(name) ==
    IF \E i \in 1..Len(name) : name[i] = "."
    THEN CHOOSE i \in 1..Len(name) :
            name[i] = "." /\ \A j \in (i + 1)..Len(name) : name[j] # "."
    ELSE 0

\* PurePath.suffix: from the last dot of the name, unless that dot is its first
\* or its last character
PathSuffix(parts) ==
    LET name == PathName(parts)
        i    == RFindDot(name)
    IN  IF 1 < i /\ i < Len(name) THEN SubSeq(name, i, Len(name)) ELSE <<>>

\* PurePath.with_suffix("")
WithoutSuffix(parts) ==
    LET name == PathName(parts)
        suf  == PathSuffix(parts)
    IN  IF suf = <<>> THEN parts
        ELSE Append(Front(parts), SubSeq(name, 1, Len(name) - Len(suf)))

README_MD == <<"r", "e", "a", "d", "m", "e", ".", "m", "d">>

DOT_MD == <<".", "m", "d">>

to_blog_link(relpath) ==
    LET p == Parts(relpath)
    IN  IF Lower(PathName(p)) = README_MD
        THEN IF AsPosix(PathParent(p)) = <<".">>
             THEN BASE_URL
             ELSE BASE_URL \o <<"/">> \o AsPosix(PathParent(p))
        ELSE IF Lower(PathSuffix(p)) = DOT_MD
             THEN BASE_URL \o <<"/">> \o AsPosix(WithoutSuffix(p))
             ELSE BASE_URL \o <<"/">> \o AsPosix(p)

----------------------------------------------------------------------------
(* collect_posts *)

\* ord() of the characters paths are made of
Ord(c) ==
    CASE c = "." -> 46 [] c = "/" -> 47
      [] c = "A" -> 65 [] c = "D" -> 68 [] c = "E" -> 69 [] c = "M" -> 77
      [] c = "R" -> 82 [] c = "T" -> 84
      [] c = "a" -> 97 [] c = "b" -> 98 [] c = "d" -> 100 [] c = "e" -> 101
      [] c = "m" -> 109 [] c = "r" -> 114 [] c = "t" -> 116 [] c = "x" -> 120

\* a < b for two str values: by code point, a proper prefix first
RECURSIVE StrLess(_, _)
StrLess(a, b) ==
    IF b = <<>> THEN FALSE
    ELSE IF a = <<>> THEN TRUE
    ELSE IF Head(a) = Head(b) THEN StrLess(Tail(a), Tail(b))
    ELSE Ord(Head(a)) < Ord(Head(b))

\* a < b for two date values
DateLess(a, b) ==
    \/ a.year < b.year
    \/ a.year = b.year /\ a.month < b.month
    \/ a.year = b.year /\ a.month = b.month /\ a.day < b.day

\* the sort key without its tie-break, key=lambda p: p.d
KeyLess_DateOnly(p, q) == DateLess(p.d, q.d)

\* key(p) < key(q) for the sort key (p.d, p.relpath)
KeyLess(p, q) == DateLess(p.d, q.d) \/ (p.d = q.d /\ StrLess(p.relpath, q.relpath))

\* one insertion of a stable descending sort: x goes after every element whose
\* key is not smaller than its own
RECURSIVE InsertDesc(_, _)
InsertDesc(sorted, x) ==
    IF sorted = <<>> THEN <<x>>
    ELSE IF KeyLess(Head(sorted), x) THEN <<x>> \o sorted
    ELSE <<Head(sorted)>> \o InsertDesc(Tail(sorted), x)

\* posts.sort(key=lambda p: (p.d, p.relpath), reverse=True)
RECURSIVE SortPosts(_)
SortPosts(list) ==
    IF list = <<>> THEN <<>>
    ELSE InsertDesc(SortPosts(Front(list)), Last(list))

\* Path.rglob("*.md"): the pattern matches on the name, case-sensitively
GlobMd(relpath) == EndsWith(PathName(Parts(relpath)), DOT_MD)

----------------------------------------------------------------------------
(* render_blog_section *)

\* The two fixed lines of the section (PEN and BOOK stand for the two emoji)
TITLE_LINE == <<"#", " ", "Shantanu's", " ", "blog", " ", "PEN">>

SUBTITLE_LINE ==
    <<"**Collection", " ", "of", " ", "the", " ", "latest", " ", "and", " ",
      "greatest", " ", "pages", " ", "from", " ", "the", " ", "wiki", " ", "BOOK**">>

\* str(n) of one decimal digit
DigitChar(n) ==
    CASE n = 0 -> "0" [] n = 1 -> "1" [] n = 2 -> "2" [] n = 3 -> "3"
      [] n = 4 -> "4" [] n = 5 -> "5" [] n = 6 -> "6" [] n = 7 -> "7"
      [] n = 8 -> "8" [] n = 9 -> "9"

\* f"{year}": decimal, no leading zeros
RECURSIVE IntToStr(_)
IntToStr(n) ==
    IF n < 10 THEN <<DigitChar(n)>>
    ELSE Append(IntToStr(n \div 10), DigitChar(n % 10))

\* f"## {year}"
YearLine(year) == <<"#", "#", " ">> \o IntToStr(year)

\* f"- [{p.title}]({link})"
BulletLine(p) ==
    <<"-", " ", "[">> \o p.title \o <<"]", "(">> \o to_blog_link(p.relpath) \o <<")">>

\* posts_by_year[year]: the posts of the year, in the order of the list
PostsOfYear(list, year) ==
    LET Of(p) == p.d.year = year IN SelectSeq(list, Of)

\* sorted(posts_by_year.keys()), without reverse=True
RECURSIVE SortedAsc(_)
SortedAsc(S) ==
    IF S = {} THEN <<>>
    ELSE LET m == CHOOSE x \in S : \A y \in S : x <= y
         IN  <<m>> \o SortedAsc(S \ {m})

\* sorted(posts_by_year.keys(), reverse=True)
RECURSIVE SortedDesc(_)
SortedDesc(S) ==
    IF S = {} THEN <<>>
    ELSE LET m == CHOOSE x \in S : \A y \in S : y <= x
         IN  <<m>> \o SortedDesc(S \ {m})

\* the lines one year adds: its heading, its bullets, a blank line
YearBlock(list, year) ==
    LET ps == PostsOfYear(list, year)
    IN  <<YearLine(year)>> \o [i \in 1..Len(ps) |-> BulletLine(ps[i])] \o << <<>> >>

RECURSIVE YearBlocks(_, _)
YearBlocks(list, years) ==
    IF years = <<>> THEN <<>>
    ELSE YearBlock(list, Head(years)) \o YearBlocks(list, Tail(years))

render_blog_section(list) ==
    LET years == SortedDesc({list[i].d.year : i \in 1..Len(list)})
    IN  Join(<<TITLE_LINE, <<>>, SUBTITLE_LINE, <<>> >> \o YearBlocks(list, years))

----------------------------------------------------------------------------
(* The inputs the specifications draw from *)

\* text of a Python literal, one character per element
T_README == <<"R", "E", "A", "D", "M", "E", ".", "m", "d">>
T_a_t == <<"a", "/", "t", ".", "m", "d">>
T_a_README == <<"a", "/", "R", "E", "A", "D", "M", "E", ".", "m", "d">>
T_b_txt == <<"b", ".", "t", "x", "t">>

T_T_MD == <<"T", ".", "M", "D">>

PathPool == <<T_a_t, T_README, T_b_txt, T_a_README, T_T_MD>>

\* the relative paths at which the wiki may hold a file
WikiPaths == {PathPool[i] : i \in 1..MaxFiles}

NoFile == [kind |-> "none", text |-> <<>>]
TextFile(t) == [kind |-> "text", text |-> t]

DATE_2024 == <<"*", "*", "2", "0", "2", "4", "-", "0", "6", "-", "0", "1", "*", "*">>
DATE_2023 == <<"*", "*", "2", "0", "2", "3", "-", "1", "2", "-", "3", "1", "*", "*">>

\* what a path of the wiki may hold
FilePool ==
    { NoFile,
      TextFile(<<"#", " ", "A", "\n">> \o DATE_2024 \o <<"\n">>),
      TextFile(<<"\n", "#", " ", "B", "\n", "\n">> \o DATE_2023 \o <<"\n", "x">>),
      TextFile(<<"x", "\n">>),
      [kind |-> "nonutf8", text |-> <<>>],
      [kind |-> "unreadable", text |-> <<>>] }

NoReadme == [exists |-> FALSE, text |-> <<>>]

\* what BLOG_REPO_README may hold before the first run
ReadmePool ==
    { NoReadme,
      [exists |-> TRUE, text |-> <<"x", "\n">>],
      [exists |-> TRUE, text |-> <<"x", "\n", "\n">> \o SENTINEL \o <<"\n", "o", "\n", "#", " ", "E", "\n">>] }

----------------------------------------------------------------------------
(* main *)

Init ==
    /\ wikiKind \in {"missing", "file", "dir"}
    /\ files \in [WikiPaths -> FilePool]
    /\ wikiKind # "dir" => \A p \in WikiPaths : files[p] = NoFile
    /\ readme \in ReadmePool
    /\ todo = {}
    /\ posts = <<>>
    /\ new_blog = <<>>
    /\ existing = <<>>
    /\ updated = <<>>
    /\ pc = "start"
    /\ exitStatus = 0
    /\ runs = 0
    /\ arg = <<>>
    /\ ret = <<>>

\* lines 169-170, and the call of collect_posts up to the loop of line 100
CheckRoot ==
    /\ pc = "start"
    /\ IF wikiKind = "missing"
       THEN /\ pc' = "exit"
            /\ exitStatus' = 1
            /\ todo' = todo
       ELSE /\ pc' = "collect"
            /\ exitStatus' = exitStatus
            /\ todo' = IF wikiKind = "dir"
                       THEN {p \in WikiPaths : files[p].kind # "none" /\ GlobMd(p)}
                       ELSE {}
    /\ posts' = <<>>
    /\ UNCHANGED <<wikiKind, files, new_blog, readme, existing, updated, runs, arg, ret>>

\* one iteration of the loop of lines 100-104, rglob yielding p
Visit(p) ==
    /\ pc = "collect"
    /\ p \in todo
    /\ todo' = todo \ {p}
    /\ LET post == parse_post(files[p], p)
       IN  IF post = Raised
           THEN /\ pc' = "exit"
                /\ exitStatus' = 1
                /\ posts' = posts
           ELSE /\ pc' = pc
                /\ exitStatus' = exitStatus
                /\ posts' = IF IsPost(post) THEN Append(posts, post) ELSE posts
    /\ UNCHANGED <<wikiKind, files, new_blog, readme, existing, updated, runs, arg, ret>>

\* the end of the loop, lines 107-108
FinishCollect ==
    /\ pc = "collect"
    /\ todo = {}
    /\ posts' = SortPosts(posts)
    /\ pc' = "render"
    /\ UNCHANGED <<wikiKind, files, todo, new_blog, readme, existing, updated,
                   exitStatus, runs, arg, ret>>

\* line 173
Render ==
    /\ pc = "render"
    /\ new_blog' = render_blog_section(posts)
    /\ pc' = "read"
    /\ UNCHANGED <<wikiKind, files, todo, posts, readme, existing, updated,
                   exitStatus, runs, arg, ret>>

\* lines 175-177
ReadExisting ==
    /\ pc = "read"
    /\ existing' = IF readme.exists THEN readme.text ELSE <<>>
    /\ pc' = "replace"
    /\ UNCHANGED <<wikiKind, files, todo, posts, new_blog, readme, updated,
                   exitStatus, runs, arg, ret>>

\* line 179
Replace ==
    /\ pc = "replace"
    /\ updated' = replace_blog_section(existing, new_blog)
    /\ pc' = "write"
    /\ UNCHANGED <<wikiKind, files, todo, posts, new_blog, readme, existing,
                   exitStatus, runs, arg, ret>>

\* lines 180-181, and the return of main
Write ==
    /\ pc = "write"
    /\ readme' = [exists |-> TRUE, text |-> updated]
    /\ pc' = "exit"
    /\ exitStatus' = 0
    /\ runs' = runs + 1
    /\ UNCHANGED <<wikiKind, files, todo, posts, new_blog, existing, updated, arg, ret>>

\* the tool is run again, the wiki unchanged
Rerun ==
    /\ pc = "exit"
    /\ exitStatus = 0
    /\ runs < MaxRuns
    /\ pc' = "start"
    /\ todo' = {}
    /\ posts' = <<>>
    /\ new_blog' = <<>>
    /\ existing' = <<>>
    /\ updated' = <<>>
    /\ UNCHANGED <<wikiKind, files, readme, exitStatus, runs, arg, ret>>

Next ==
    \/ CheckRoot
    \/ \E p \in WikiPaths : Visit(p)
    \/ FinishCollect
    \/ Render
    \/ ReadExisting
    \/ Replace
    \/ Write
    \/ Rerun

Spec == Init /\ [][Next]_vars

----------------------------------------------------------------------------
(* replace_blog_section on its own: main from line 179, for any document    *)
(* and any section                                                          *)

\* every sequence of at most n elements of S
SeqsUpTo(S, n) == UNION {[1..k -> S] : k \in 0..n}

\* the lines documents are made of
DocLines ==
    { <<>>,
      <<" ">>,
      SENTINEL,
      <<" ">> \o SENTINEL,
      <<"#", " ", "E">>,
      <<"x">>,
      <<"x", " ">> }

\* the documents: up to MaxDocLines lines, with or without a final line break
Docs ==
    { Join(ls) \o e : ls \in SeqsUpTo(DocLines, MaxDocLines), e \in {<<>>, <<"\n">>} }

\* the sections: two rendered ones, one carrying the sentinel, one padded, one blank
Sections ==
    { render_blog_section(<<>>),
      render_blog_section(<<Post(<<"A">>, [year |-> 2024, month |-> 6, day |-> 1], T_a_t)>>),
      SENTINEL \o <<"\n", "n">>,
      <<"\n", " ", "y", " ", "\n">>,
      <<" ", "\n">> }

InitSplice ==
    /\ pc = "replace"
    /\ existing \in Docs
    /\ new_blog \in Sections
    /\ updated = <<>>
    /\ wikiKind = "dir"
    /\ files = [p \in WikiPaths |-> NoFile]
    /\ todo = {}
    /\ posts = <<>>
    /\ readme = NoReadme
    /\ exitStatus = 0
    /\ runs = 0
    /\ arg = <<>>
    /\ ret = <<>>

NextSplice == Replace

SpecSplice == InitSplice /\ [][NextSplice]_vars

----------------------------------------------------------------------------
(* parse_post on its own *)

\* the lines files are made of
FileLines ==
    { <<>>,
      <<" ">>,
      <<"#", " ", "T">>,
      <<" ", "#", " ", "T", " ">>,
      <<"#", "T">>,
      <<"#", "#", " ", "T">>,
      <<"#", " ", " ">>,
      <<"T">>,
      DATE_2024,
      <<" ">> \o DATE_2024 \o <<" ">>,
      DATE_2024 \o <<" ", "x">>,
      <<"*", "*", "2", "0", "2", "3", "-", "0", "2", "-", "3", "0", "*", "*">>,
      <<"*", "*", "2", "0", "2", "4", "-", "1", "3", "-", "0", "1", "*", "*">>,
      <<"*", "*", "2", "0", "2", "4", "-", "0", "2", "-", "2", "9", "*", "*">>,
      <<"*", "*", "2", "0", "2", "4", "-", "6", "-", "1", "*", "*">>,
      <<"*", "2", "0", "2", "4", "-", "0", "6", "-", "0", "1", "*">> }

\* the files: text of up to MaxFileLines lines, or bytes that are not UTF-8
FileInputs ==
    { TextFile(Join(ls)) : ls \in SeqsUpTo(FileLines, MaxFileLines) }
        \cup { [kind |-> "nonutf8", text |-> <<>>] }

InitParse ==
    /\ pc = "parse"
    /\ arg \in FileInputs
    /\ ret = None
    /\ wikiKind = "dir"
    /\ files = [p \in WikiPaths |-> NoFile]
    /\ todo = {}
    /\ posts = <<>>
    /\ new_blog = <<>>
    /\ readme = NoReadme
    /\ existing = <<>>
    /\ updated = <<>>
    /\ exitStatus = 0
    /\ runs = 0

\* parse_post(WIKI_DIR / "a/t.md")
CallParsePost ==
    /\ pc = "parse"
    /\ ret' = parse_post(arg, T_a_t)
    /\ pc' = "parsed"
    /\ UNCHANGED <<wikiKind, files, todo, posts, new_blog, readme, existing, updated,
                   exitStatus, runs, arg>>

NextParse == CallParsePost

SpecParse == InitParse /\ [][NextParse]_vars

----------------------------------------------------------------------------
(* to_blog_link on its own *)

\* the names of directories
DirNames == { <<"a">>, <<"b">> }

\* the names of files
FileNames ==
    { T_README,
      <<"r", "e", "a", "d", "m", "e", ".", "m", "d">>,
      <<"R", "e", "a", "d", "M", "e", ".", "M", "D">>,
      <<"R", "E", "A", "D", "M", "E", ".", "t", "x", "t">>,
      <<"R", "E", "A", "D", "M", "E">>,
      <<"R", "E", "A", "D", "M", "E", ".", "m", "d", ".", "m", "d">>,
      <<"t", ".", "m", "d">>,
      <<"t", ".", "M", "D">>,
      <<"t", ".", "t", "x", "t">>,
      <<"t", ".", "b", ".", "m", "d">>,
      <<"t", ".", "m", "d", ".">>,
      <<"t">>,
      <<".", "m", "d">> }

\* the relative paths: a file name under at most MaxDepth directories
LinkInputs ==
    { AsPosix(Append(ds, n)) : ds \in SeqsUpTo(DirNames, MaxDepth), n \in FileNames }

InitLink ==
    /\ pc = "link"
    /\ arg \in LinkInputs
    /\ ret = <<>>
    /\ wikiKind = "dir"
    /\ files = [p \in WikiPaths |-> NoFile]
    /\ todo = {}
    /\ posts = <<>>
    /\ new_blog = <<>>
    /\ readme = NoReadme
    /\ existing = <<>>
    /\ updated = <<>>
    /\ exitStatus = 0
    /\ runs = 0

CallToBlogLink ==
    /\ pc = "link"
    /\ ret' = to_blog_link(arg)
    /\ pc' = "linked"
    /\ UNCHANGED <<wikiKind, files, todo, posts, new_blog, readme, existing, updated,
                   exitStatus, runs, arg>>

NextLink == CallToBlogLink

SpecLink == InitLink /\ [][NextLink]_vars

----------------------------------------------------------------------------
(* render_blog_section on its own: main at line 173, for any list of posts *)

PostPool ==
    { Post(<<"A">>, [year |-> 2024, month |-> 6, day |-> 1], T_a_t),
      Post(<<"B">>, [year |-> 2024, month |-> 1, day |-> 15], T_README),
      Post(<<"C">>, [year |-> 2023, month |-> 12, day |-> 31], T_a_README),
      Post(<<"D">>, [year |-> 2023, month |-> 2, day |-> 3], T_b_txt),
      Post(<<"E">>, [year |-> 2025, month |-> 1, day |-> 1], T_T_MD) }

\* the lists of at most MaxPosts posts, no post twice
RenderInputs ==
    { l \in SeqsUpTo(PostPool, MaxPosts) :
        \A i, j \in 1..Len(l) : i # j => l[i] # l[j] }

InitRender ==
    /\ pc = "render"
    /\ posts \in RenderInputs
    /\ new_blog = <<>>
    /\ wikiKind = "dir"
    /\ files = [p \in WikiPaths |-> NoFile]
    /\ todo = {}
    /\ readme = NoReadme
    /\ existing = <<>>
    /\ updated = <<>>
    /\ exitStatus = 0
    /\ runs = 0
    /\ arg = <<>>
    /\ ret = <<>>

NextRender == Render

SpecRender == InitRender /\ [][NextRender]_vars

----------------------------------------------------------------------------
(* Claims about main, checked under Spec *)

\* C1: splicing is idempotent, so a second run of the tool over an unchanged
\* wiki leaves the destination README unchanged: what the second run is about
\* to write is what it read.
C1_SecondRunChangesNothing ==
    (pc = "write" /\ runs >= 1) => updated = existing

\* C3: when the destination README does not exist or is empty, the document
\* written is exactly the trimmed new section followed by one newline, with
\* nothing before it.
C3_EmptyDocumentGivesSection ==
    (pc = "write" /\ existing = <<>>) => updated = Strip(new_blog) \o <<"\n">>

\* C5: if the scan root does not exist as a directory, the run aborts with a
\* non-zero exit status before any file is scanned and before the destination
\* is read or written.
C5_RootNotDirectoryAborts ==
    wikiKind # "dir" =>
        /\ pc \in {"start", "exit"}
        /\ pc = "exit" => exitStatus # 0
        /\ runs = 0

\* C10: once the root-existence check has passed, no per-file problem
\* terminates the run: every run over a wiki directory ends with status 0,
\* the destination written.
C10_PerFileFailureIsolated ==
    (wikiKind = "dir" /\ pc = "exit") => (exitStatus = 0 /\ runs >= 1)

\* the files rglob yields from which parse_post makes a post
PostedPaths ==
    {p \in WikiPaths : files[p].kind # "none" /\ GlobMd(p) /\ IsPost(parse_post(files[p], p))}

\* C7: the list collect_posts returns is sorted by date descending, ties by
\* relative path descending, and holds exactly the records parse_post
\* produced, each once (so it is empty when no file qualifies).
C7_CollectedSorted ==
    pc = "render" =>
        /\ \A i \in 1..(Len(posts) - 1) :
              \/ DateLess(posts[i + 1].d, posts[i].d)
              \/ /\ posts[i].d = posts[i + 1].d
                 /\ StrLess(posts[i + 1].relpath, posts[i].relpath)
        /\ {posts[i] : i \in 1..Len(posts)} = {parse_post(files[p], p) : p \in PostedPaths}
        /\ Len(posts) = Cardinality(PostedPaths)

\* C7's case: three posts collected, two of them of the same date
C7_Witness ==
    /\ pc = "render"
    /\ Len(posts) = 3
    /\ \E i \in 1..2 : posts[i].d = posts[i + 1].d
    /\ \E i \in 1..2 : posts[i].d # posts[i + 1].d

----------------------------------------------------------------------------
(* Claims about replace_blog_section, checked under SpecSplice *)

\* a line of whitespace only
IsBlankLine(line) == \A i \in 1..Len(line) : IsSpace(line[i])

RECURSIVE DropTrailingBlankLines(_)
DropTrailingBlankLines(ls) ==
    IF ls = <<>> THEN <<>>
    ELSE IF IsBlankLine(Last(ls)) THEN DropTrailingBlankLines(Front(ls))
    ELSE ls

RECURSIVE DropLeadingBlankLines(_)
DropLeadingBlankLines(ls) ==
    IF ls = <<>> THEN <<>>
    ELSE IF IsBlankLine(Head(ls)) THEN DropLeadingBlankLines(Tail(ls))
    ELSE ls

\* lines without the blank lines at their two ends
TrimBlankLines(ls) == DropLeadingBlankLines(DropTrailingBlankLines(ls))

\* lines without their trailing blank lines and without the trailing whitespace
\* of their last line
TrimEnd(ls) ==
    LET kept == DropTrailingBlankLines(ls)
    IN  IF kept = <<>> THEN <<>> ELSE Append(Front(kept), RStrip(Last(kept)))

\* the least index from `from` on of a line that satisfies T, Len(ls) + 1 when none
FirstIndex(ls, from, T(_)) ==
    IF \E i \in from..Len(ls) : T(ls[i])
    THEN CHOOSE i \in from..Len(ls) : T(ls[i]) /\ \A j \in from..(i - 1) : ~T(ls[j])
    ELSE Len(ls) + 1

IsExactSentinel(line) == line = SENTINEL
IsTrimmedSentinel(line) == Strip(line) = SENTINEL
IsTopHeading(line) == Len(line) >= 2 /\ line[1] = "#" /\ line[2] = " "

ExistingLines == SplitLines(existing)
UpdatedLines == SplitLines(updated)

C2_s == FirstIndex(ExistingLines, 1, IsTrimmedSentinel)
C2_e == FirstIndex(ExistingLines, C2_s + 1, IsTopHeading)
C2_Before == SubSeq(ExistingLines, 1, C2_s - 1)
C2_After == SubSeq(ExistingLines, C2_e, Len(ExistingLines))

C4_Kept == SubSeq(updated, 1, Len(updated) - Len(Strip(new_blog)) - 3)

----------------------------------------------------------------------------
(* Claims about parse_post, checked under SpecParse *)

\* the lines of the file that are not blank
NonBlankLines(text) ==
    LET NotBlank(line) == ~IsBlankLine(line) IN SelectSeq(SplitLines(text), NotBlank)

\* ^#\s+(.+)$
IsHeadingLine(line) == Len(line) >= 3 /\ line[1] = "#" /\ IsSpace(line[2])

\* ^\*\*(\d{4}-\d{2}-\d{2})\*\*$
IsBoldDateLine(line) ==
    /\ Len(line) = 14
    /\ SubSeq(line, 1, 2) = <<"*", "*">>
    /\ SubSeq(line, 13, 14) = <<"*", "*">>
    /\ line[7] = "-" /\ line[10] = "-"
    /\ \A i \in (3..6) \cup (8..9) \cup (11..12) : line[i] \in Digits

MonthLengths == <<31, 28, 31, 30, 31, 30, 31, 31, 30, 31, 30, 31>>

\* the date a bold date line names
DateOfLine(line) ==
    [year  |-> ToInt(SubSeq(line, 3, 6)),
     month |-> ToInt(SubSeq(line, 8, 9)),
     day   |-> ToInt(SubSeq(line, 11, 12))]

\* a date of the calendar
IsCalendarDate(d) ==
    /\ d.year >= 1
    /\ d.month \in 1..12
    /\ d.day >= 1
    /\ \/ d.day <= MonthLengths[d.month]
       \/ /\ d.month = 2 /\ d.day = 29
          /\ d.year % 4 = 0 /\ (d.year % 100 # 0 \/ d.year % 400 = 0)

\* C6, as claimed: a record exactly for a file whose first non-blank line
\* matches ^#\s+(.+)$ and whose next non-blank line matches
\* ^\*\*(\d{4}-\d{2}-\d{2})\*\*$ with a valid date; absent for every other
\* file, never an error.
C6_StrictLines ==
    pc = "parsed" =>
        LET nb == NonBlankLines(arg.text)
            ok == /\ arg.kind = "text"
                  /\ Len(nb) >= 2
                  /\ IsHeadingLine(nb[1])
                  /\ IsBoldDateLine(nb[2])
                  /\ IsCalendarDate(DateOfLine(nb[2]))
        IN  /\ ret # Raised
            /\ IsPost(ret) <=> ok
            /\ ~IsPost(ret) => ret = None

\* C6, amended: a record exactly for a file whose first non-blank line, its
\* leading whitespace aside, matches ^#\s+(.+)$ and whose next non-blank
\* line, its leading and trailing whitespace aside, matches
\* ^\*\*(\d{4}-\d{2}-\d{2})\*\*$ with a valid date: the record holds the
\* trimmed title, that date and the relative path.  Absent for every other
\* file, never an error.
C6_LenientLines ==
    pc = "parsed" =>
        LET nb == NonBlankLines(arg.text)
            ok == /\ arg.kind = "text"
                  /\ Len(nb) >= 2
                  /\ IsHeadingLine(LStrip(nb[1]))
                  /\ IsBoldDateLine(Strip(nb[2]))
                  /\ IsCalendarDate(DateOfLine(Strip(nb[2])))
        IN  IF ok
            THEN ret = [title   |-> Strip(Tail(LStrip(nb[1]))),
                        d       |-> DateOfLine(Strip(nb[2])),
                        relpath |-> T_a_t]
            ELSE ret = None

\* C6's case: a post whose heading line is indented, found after a blank line
C6_Witness ==
    /\ pc = "parsed"
    /\ IsPost(ret)
    /\ Len(SplitLines(arg.text)) = 3
    /\ IsBlankLine(SplitLines(arg.text)[1])
    /\ Head(SplitLines(arg.text)[2]) = " "
    /\ ret.d = [year |-> 2024, month |-> 2, day |-> 29]

----------------------------------------------------------------------------
(* Claims about to_blog_link, checked under SpecLink *)

\* the greatest index of c in s, 0 when there is none
LastIndexOf(s, c) ==
    IF \E i \in 1..Len(s) : s[i] = c
    THEN CHOOSE i \in 1..Len(s) : s[i] = c /\ \A j \in (i + 1)..Len(s) : s[j] # c
    ELSE 0

\* two texts equal but for the case of their letters
SameIgnoringCase(a, b) ==
    Len(a) = Len(b) /\ \A i \in 1..Len(a) : LowerChar(a[i]) = LowerChar(b[i])

\* C9: the link of a relative path, by three cases in order: a final segment
\* that is README.md whatever its case gives the base URL alone at the root
\* and base_url/parent below it; else an extension that is .md whatever its
\* case gives base_url/path-without-extension; else base_url/path.
C9_LinkCases ==
    pc = "linked" =>
        LET slash  == LastIndexOf(arg, "/")
            final  == SubSeq(arg, slash + 1, Len(arg))
            parent == SubSeq(arg, 1, slash - 1)
            dot    == LastIndexOf(final, ".")
            ext    == IF 1 < dot /\ dot < Len(final)
                      THEN SubSeq(final, dot, Len(final)) ELSE <<>>
        IN  IF SameIgnoringCase(final, T_README)
            THEN ret = IF slash = 0 THEN BASE_URL ELSE BASE_URL \o <<"/">> \o parent
            ELSE IF SameIgnoringCase(ext, DOT_MD)
                 THEN ret = BASE_URL \o <<"/">> \o SubSeq(arg, 1, Len(arg) - 3)
                 ELSE ret = BASE_URL \o <<"/">> \o arg

\* C9's case: a README.md in mixed case below the root
C9_Witness ==
    /\ pc = "linked"
    /\ arg = <<"a", "/", "b", "/", "R", "e", "a", "d", "M", "e", ".", "M", "D">>
    /\ ret = BASE_URL \o <<"/", "a", "/", "b">>

----------------------------------------------------------------------------
(* Claims about render_blog_section, checked under SpecRender *)

RenderedLines == SplitLines(new_blog)

IsYearHeading(line) == StartsWith(line, <<"#", "#", " ">>)
IsBullet(line) == StartsWith(line, <<"-", " ", "[">>)

\* the year a '## <year>' line names
YearOfHeading(line) == ToInt(SubSeq(line, 4, Len(line)))

YearHeadings == {i \in 1..Len(RenderedLines) : IsYearHeading(RenderedLines[i])}

\* C8: one '## <year>' heading per distinct year, in strictly descending
\* order; under each heading exactly the posts of that year, one bullet
\* each, in the order of the input list; every post appears exactly once.
C8_YearGroups ==
    pc = "read" =>
        LET R == RenderedLines
        IN  /\ \A i, j \in YearHeadings :
                  i < j => YearOfHeading(R[i]) > YearOfHeading(R[j])
            /\ {YearOfHeading(R[i]) : i \in YearHeadings}
                  = {posts[k].d.year : k \in 1..Len(posts)}
            /\ \A i \in YearHeadings :
                  LET OfYear(p) == p.d.year = YearOfHeading(R[i])
                      ps == SelectSeq(posts, OfYear)
                  IN  /\ i + Len(ps) <= Len(R)
                      /\ \A k \in 1..Len(ps) : R[i + k] = BulletLine(ps[k])
                      /\ i + Len(ps) < Len(R) => ~IsBullet(R[i + Len(ps) + 1])
            /\ Cardinality({i \in 1..Len(R) : IsBullet(R[i])}) = Len(posts)

\* C8's case: three posts of two years, the two of one year given oldest first
C8_Witness ==
    /\ pc = "read"
    /\ Len(posts) = 3
    /\ Cardinality(YearHeadings) = 2
    /\ \E i, j \in 1..3 :
          /\ i < j
          /\ posts[i].d.year = posts[j].d.year
          /\ DateLess(posts[i].d, posts[j].d)
    /\ posts[1].d.year < posts[3].d.year

====
